---- MODULE Spec2Model ----
(***************************************************************************)
(* sql-batch-generator-id-based: one UPDATE/DELETE/SELECT is split into a   *)
(* sequence of statements, each restricted to a closed slice of a primary   *)
(* key range.  Three generations of the pipeline live in the repository:    *)
(*   - src/main.rs            IdSlicer + text based SqlSlicerTemplate       *)
(*   - src/batch/mod.rs       SqlBatchJob (BatchConfig + DmlStatement)      *)
(*   - src/application, src/domain, src/infrastructure                      *)
(*                            GenerateBatchedSqlUseCase, IdBatchSlicer,     *)
(*                            SqlParserBatchTemplate                        *)
(* SQL text is a sequence of word tokens; the sqlparser crate is an oracle: *)
(* every input carries the syntax tree the parser returns for it.           *)
(***************************************************************************)
EXTENDS Integers, Sequences, FiniteSets, TLC

VARIABLES prog, pc, cmd, iter, out, result, tmpl, file

vars == <<prog, pc, cmd, iter, out, result, tmpl, file>>

(***************************************************************************)
(* Numbers.  Ids are i128; the model scales the width down: IdMax stands    *)
(* for i128::MAX and IdMin for i128::MIN.                                   *)
(***************************************************************************)
IdMax == 5

IdMin == -IdMax - 1

MaxBatch == 3

Ids == IdMin..IdMax

Modulus == IdMax - IdMin + 1

\* two's-complement wrap of a mathematical integer into the id width
wrapping(x) == ((x - IdMin) % Modulus) + IdMin

overflows(x) == x < IdMin \/ x > IdMax

Min(a, b) == IF a <= b THEN a ELSE b

\* ceil(a / b) for a >= 0, b > 0
CeilDiv(a, b) == (a + b - 1) \div b

Panic == [panic |-> TRUE, start |-> 0, end |-> 0]

SubRange(s, e) == [panic |-> FALSE, start |-> s, end |-> e]

(***************************************************************************)
(* (start..=end).step_by(n): core's RangeInclusive<i128> under the generic  *)
(* StepBy adapter (first next() is nth(0), every later one nth(n - 1)).     *)
(***************************************************************************)
RangeInclusive(start, end) == [start |-> start, end |-> end, exhausted |-> FALSE]

is_empty(r) == r.exhausted \/ r.start > r.end

None == [some |-> FALSE, value |-> 0]

Some(v) == [some |-> TRUE, value |-> v]

\* RangeInclusive::nth(k): the item, and the range left behind.
\* Step::forward_checked is a checked add: past the width the range just ends.
nth(r, k) ==
    IF is_empty(r) THEN [item |-> None, range |-> r]
    ELSE IF ~overflows(r.start + k) /\ r.start + k < r.end
         THEN [item |-> Some(r.start + k),
               range |-> [r EXCEPT !.start = r.start + k + 1]]
    ELSE IF ~overflows(r.start + k) /\ r.start + k = r.end
         THEN [item |-> Some(r.start + k),
               range |-> [r EXCEPT !.start = r.start + k, !.exhausted = TRUE]]
    ELSE [item |-> None, range |-> [r EXCEPT !.start = r.end, !.exhausted = TRUE]]

step_by(r, n) == [range |-> r, step_minus_one |-> n - 1, first_take |-> TRUE]

step_by_next(it) ==
    LET k == IF it.first_take THEN 0 ELSE it.step_minus_one
        got == nth(it.range, k)
    IN [item |-> got.item,
        iter |-> [it EXCEPT !.range = got.range, !.first_take = FALSE]]

(***************************************************************************)
(* The map closure of the three slicers:                                    *)
(*     (current_start + batch_size - 1).min(end)                            *)
(* evaluated left to right in i128.  When an intermediate result leaves the *)
(* width the build decides: with overflow checks the process panics,        *)
(* without them both operations wrap.                                       *)
(***************************************************************************)
capped_sub_range(current_start, batch_size, end) ==
    LET sum == current_start + batch_size
        last == wrapping(sum) - 1
        wrapped == SubRange(current_start, Min(wrapping(last), end))
    IN IF overflows(sum) \/ overflows(last) THEN {Panic, wrapped} ELSE {wrapped}

\* IdBatchSlicer::iter_ranges, the closure
iter_ranges(current_start, batch_size, end_id) ==
    capped_sub_range(current_start, batch_size, end_id)

\* IdRange::split_by, the closure
split_by(start, step, end) == capped_sub_range(start, step, end)

\* IdSlicer::slice_id, the closure
slice_id(start, batch_size, end_id) == capped_sub_range(start, batch_size, end_id)

\* IdBatchSlicer::new with the batch size checked before the range
IdBatchSlicer_new_size_first(start_id, end_id, batch_size) ==
    IF batch_size = 0 THEN "InvalidBatchSize"
    ELSE IF start_id > end_id THEN "InvalidRange"
    ELSE "Ok"

\* IdBatchSlicer::new
IdBatchSlicer_new(start_id, end_id, batch_size) ==
    IF start_id > end_id THEN "InvalidRange"
    ELSE IF batch_size = 0 THEN "InvalidBatchSize"
    ELSE "Ok"

\* IdSlicer::build
IdSlicer_build(start_id, end_id, batch_size) ==
    IF start_id > end_id THEN "InvalidRange"
    ELSE IF batch_size = 0 THEN "InvalidBatchSize"
    ELSE "Ok"

\* IdRange::new
IdRange_new(start, end) == IF start > end THEN "InvalidPrimaryKeyRange" ELSE "Ok"

\* BatchSize::new
BatchSize_new(value) == IF value = 0 THEN "InvalidBatchSize" ELSE "Ok"

Slicers == {"iter_ranges", "split_by", "slice_id"}

\* the constructor of slicer p
slicer_new(p, start, end, n) ==
    CASE p = "iter_ranges" -> IdBatchSlicer_new(start, end, n)
      [] p = "slice_id" -> IdSlicer_build(start, end, n)
      [] OTHER -> IF IdRange_new(start, end) # "Ok" THEN IdRange_new(start, end)
                  ELSE BatchSize_new(n)

\* the sub-range(s) slicer p maps a start to
slicer_map(p, current_start, n, end) ==
    CASE p = "iter_ranges" -> iter_ranges(current_start, n, end)
      [] p = "slice_id" -> slice_id(current_start, n, end)
      [] OTHER -> split_by(current_start, n, end)

NoIter == step_by(RangeInclusive(0, 0), 1)

NoTmpl == [compiled |-> FALSE]

NoResult == [err |-> "None", value |-> <<>>]

\* the output: created, the lines written to its writer, whether all of them
\* have been flushed to the file, whether the writer was dropped, and whether
\* a flush failed
NoFile ==
    [created |-> FALSE, lines |-> <<>>, flushed |-> FALSE, closed |-> FALSE,
     flush_failed |-> FALSE]

(***************************************************************************)
(* Syntax trees (sqlparser::ast), reduced to the slots the program reads or *)
(* writes.  An Option is a sequence of length 0 or 1; a string is a         *)
(* sequence of tokens; an identifier holds its string.                      *)
(***************************************************************************)
Ident(value) == [value |-> value]

\* Expr::Identifier / Expr::CompoundIdentifier
Identifier(ident) == [t |-> "Identifier", parts |-> <<ident>>]

CompoundIdentifier(parts) == [t |-> "CompoundIdentifier", parts |-> parts]

\* Expr::Value(Value::Number(text, false))
Number(text) == [t |-> "Value", toks |-> <<text>>]

\* any other expression the parser built: kept as its tokens
Raw(kind, toks) == [t |-> "Raw", kind |-> kind, toks |-> toks]

Between(expr, low, high) == [t |-> "Between", expr |-> expr, low |-> low, high |-> high]

BinaryOp(left, op, right) == [t |-> "BinaryOp", left |-> left, op |-> op, right |-> right]

Nested(inner) == [t |-> "Nested", inner |-> inner]

\* TableFactor::Table { name, alias } and a factor of any other variant
Table(name, alias) == [factor |-> "Table", name |-> name, alias |-> alias]

Derived(alias) == [factor |-> "Derived", name |-> <<>>, alias |-> alias]

TableWithJoins(relation, joins) == [relation |-> relation, joins |-> joins]

\* Statement: Update { table, assignments, selection, limit },
\* Delete { tables, from, selection, order_by, limit },
\* Query { body: Select { projection, from, selection } | SetOperation, order_by, limit }
\* and every other statement kind (Insert).  Update's table is from[1].
Statement(kind, body, tables, from, head, selection, order_by, limit) ==
    [kind |-> kind, body |-> body, tables |-> tables, from |-> from, head |-> head,
     selection |-> selection, order_by |-> order_by, limit |-> limit]

RECURSIVE Flatten(_)
\* concatenation of a sequence of token sequences
Flatten(ss) == IF ss = <<>> THEN <<>> ELSE Head(ss) \o Flatten(Tail(ss))

RECURSIVE JoinWith(_, _)
\* the token sequences ss joined with the token sep
JoinWith(ss, sep) ==
    IF ss = <<>> THEN <<>>
    ELSE IF Len(ss) = 1 THEN Head(ss)
    ELSE Head(ss) \o <<sep>> \o JoinWith(Tail(ss), sep)

RECURSIVE expr_to_string(_)
\* Display for Expr
expr_to_string(e) ==
    CASE e.t = "Identifier" -> e.parts[1].value
      [] e.t = "CompoundIdentifier" ->
            JoinWith([i \in 1..Len(e.parts) |-> e.parts[i].value], ".")
      [] e.t = "Between" ->
            expr_to_string(e.expr) \o <<"BETWEEN">> \o expr_to_string(e.low)
                \o <<"AND">> \o expr_to_string(e.high)
      [] e.t = "BinaryOp" ->
            expr_to_string(e.left) \o <<e.op>> \o expr_to_string(e.right)
      [] e.t = "Nested" -> <<"(">> \o expr_to_string(e.inner) \o <<")">>
      [] OTHER -> e.toks

\* Display for TableFactor
table_factor_to_string(f) ==
    (IF f.factor = "Table" THEN JoinWith([i \in 1..Len(f.name) |-> <<f.name[i]>>], ".")
     ELSE <<"(", "SELECT", "1", ")">>)
    \o f.alias

\* Display for TableWithJoins
table_with_joins_to_string(t) ==
    table_factor_to_string(t.relation)
    \o Flatten([i \in 1..Len(t.joins) |->
                  <<"JOIN">> \o table_factor_to_string(t.joins[i].relation)
                      \o <<"ON">> \o t.joins[i].on])

from_to_string(from) ==
    JoinWith([i \in 1..Len(from) |-> table_with_joins_to_string(from[i])], ",")

where_to_string(selection) ==
    IF selection = <<>> THEN <<>> ELSE <<"WHERE">> \o expr_to_string(selection[1])

order_by_to_string(order_by) ==
    IF order_by = <<>> THEN <<>> ELSE <<"ORDER", "BY">> \o order_by

limit_to_string(limit) == IF limit = <<>> THEN <<>> ELSE <<"LIMIT">> \o limit

\* Display for Statement (statement.to_string())
statement_to_string(st) ==
    CASE st.kind = "Update" ->
            <<"UPDATE">> \o from_to_string(st.from) \o <<"SET">> \o st.head
                \o where_to_string(st.selection) \o limit_to_string(st.limit)
      [] st.kind = "Delete" ->
            <<"DELETE">> \o JoinWith([i \in 1..Len(st.tables) |-> st.tables[i]], ",")
                \o <<"FROM">> \o from_to_string(st.from)
                \o where_to_string(st.selection) \o order_by_to_string(st.order_by)
                \o limit_to_string(st.limit)
      [] st.kind = "Query" /\ st.body = "Select" ->
            <<"SELECT">> \o st.head
                \o (IF st.from = <<>> THEN <<>> ELSE <<"FROM">> \o from_to_string(st.from))
                \o where_to_string(st.selection) \o order_by_to_string(st.order_by)
                \o limit_to_string(st.limit)
      [] st.kind = "Query" ->
            <<"SELECT">> \o st.head \o <<"FROM", "a", "UNION", "SELECT">> \o st.head
                \o <<"FROM", "b">> \o order_by_to_string(st.order_by)
                \o limit_to_string(st.limit)
      [] OTHER -> <<"INSERT", "INTO", "users">> \o st.head

(***************************************************************************)
(* Inputs.  A raw SQL text carries what Parser::parse_sql returns for it; a *)
(* primary key string carries what the parser returns for the probe         *)
(* "SELECT <key> FROM __pk_probe".                                          *)
(***************************************************************************)
Users == Table(<<"users">>, <<>>)

UsersU == Table(<<"users">>, <<"u">>)

JoinDepartments ==
    [relation |-> Table(<<"departments">>, <<"d">>), on |-> <<"u.dept_id", "=", "d.id">>]

FromPlain == <<TableWithJoins(Users, <<>>)>>

FromAlias == <<TableWithJoins(UsersU, <<>>)>>

FromJoin == <<TableWithJoins(UsersU, <<JoinDepartments>>)>>

FromDerived == <<TableWithJoins(Derived(<<"x">>), <<>>)>>

\* a condition with a top-level OR, and one holding a subquery with its own WHERE
FilterOr == Raw("BinaryOp", <<"status", "=", "1", "OR", "active", "=", "0">>)

FilterSubquery ==
    Raw("InSubquery",
        <<"dept_id", "IN", "(", "SELECT", "id", "FROM", "departments",
          "WHERE", "enabled", "=", "1", ")">>)

Selections == {<<>>, <<FilterOr>>, <<FilterSubquery>>}

OrderBys == {<<>>, <<"id", "DESC">>}

Limits == {<<>>, <<"10">>}

\* (selection, order_by, limit)
Clauses == Selections \X OrderBys \X Limits

\* the statements sampled: every clause combination on an aliased table, and
\* every table shape with no clause and with all of them
Sampled(from, c) ==
    \/ from = FromAlias
    \/ c = <<<<>>, <<>>, <<>>>>
    \/ c[1] = <<FilterOr>> /\ c[3] = <<"10">>

Updates ==
    {Statement("Update", "None", <<>>, from, <<"active", "=", "0">>, c[1], <<>>, c[3]) :
        <<from, c>> \in {x \in {FromPlain, FromAlias, FromJoin, FromDerived} \X Clauses :
                            Sampled(x[1], x[2]) /\ x[2][2] = <<>>}}

\* <<tables, from>> of a DELETE: single table, and multi-table with a target list
DeleteTargets ==
    {<<<<>>, FromPlain>>, <<<<>>, FromAlias>>, <<<<>>, FromJoin>>, <<<<>>, FromDerived>>,
     <<<< <<"d">> >>, FromJoin>>}

Deletes ==
    {Statement("Delete", "None", tf[1], tf[2], <<>>, c[1], c[2], c[3]) :
        <<tf, c>> \in {x \in DeleteTargets \X Clauses :
                          Sampled(x[1][2], x[2])}}

Selects ==
    {Statement("Query", "Select", <<>>, from, <<"id", ",", "name">>, c[1], c[2], c[3]) :
        <<from, c>> \in {x \in {FromPlain, FromAlias, FromJoin, FromDerived, <<>>} \X Clauses :
                            Sampled(x[1], x[2]) /\ (x[2][2] = <<>>) = (x[2][3] = <<>>)}}

SetOperation ==
    Statement("Query", "SetOperation", <<>>, <<>>, <<"id">>, <<>>, <<>>, <<"10">>)

Insert ==
    Statement("Insert", "None", <<>>, <<>>, <<"VALUES", "(", "1", ")">>, <<>>, <<>>, <<>>)

Statements == Updates \cup Deletes \cup Selects \cup {SetOperation, Insert}

Parsed(statements) == [ok |-> TRUE, statements |-> statements]

ParseError == [ok |-> FALSE, statements |-> <<>>]

Single(st) == [text |-> statement_to_string(st), parsed |-> Parsed(<<st>>)]

Blank == [text |-> <<" ">>, parsed |-> Parsed(<<>>)]

SyntaxError == [text |-> <<"UPDATE", "users", "SET">>, parsed |-> ParseError]

OnlySemicolon == [text |-> <<";">>, parsed |-> Parsed(<<>>)]

UpdateUsers ==
    Statement("Update", "None", <<>>, FromPlain, <<"active", "=", "0">>, <<>>, <<>>, <<>>)

DeleteUsers == Statement("Delete", "None", <<>>, FromPlain, <<>>, <<>>, <<>>, <<>>)

\* a Delete whose target list and FROM list are both empty
DeleteNoTable == Statement("Delete", "None", <<>>, <<>>, <<>>, <<>>, <<>>, <<>>)

TwoStatements ==
    [text |-> statement_to_string(UpdateUsers) \o <<";">> \o statement_to_string(DeleteUsers),
     parsed |-> Parsed(<<UpdateUsers, DeleteUsers>>)]

RawSqls ==
    {Single(st) : st \in Statements} \cup {Blank, SyntaxError, OnlySemicolon, TwoStatements}

\* the projection of the probe query: one unnamed expression of kind t
Probe(expr) ==
    Parsed(<<[kind |-> "Query", body |-> "Select",
              projection |-> <<[item |-> "UnnamedExpr", expr |-> expr]>>]>>)

PrimaryKeys ==
    {[text |-> <<"id">>, probe |-> Probe(Identifier(Ident(<<"id">>)))],
     [text |-> <<" ", "t2", ".", "id", " ">>,
      probe |-> Probe(CompoundIdentifier(<<Ident(<<"t2">>), Ident(<<"id">>)>>))],
     [text |-> <<" ">>, probe |-> ParseError],
     [text |-> <<"COUNT(*)">>, probe |-> Probe(Raw("Function", <<"COUNT(*)">>))],
     [text |-> <<"1", ".", "5">>, probe |-> Probe(Raw("Value", <<"1.5">>))],
     [text |-> <<"id + 1">>, probe |-> Probe(Raw("BinaryOp", <<"id", "+", "1">>))],
     [text |-> <<")">>, probe |-> ParseError]}

\* Parser::parse_sql(dialect, raw_sql)
parse_sql(raw_sql) == raw_sql.parsed

\* char::is_whitespace, for the characters of the inputs
White == {" ", "\t", "\n"}

RECURSIVE trim_start(_)
\* str::trim_start
trim_start(s) == IF s # <<>> /\ Head(s) \in White THEN trim_start(Tail(s)) ELSE s

RECURSIVE trim_end(_)
\* str::trim_end
trim_end(s) ==
    IF s # <<>> /\ s[Len(s)] \in White THEN trim_end(SubSeq(s, 1, Len(s) - 1)) ELSE s

\* str::trim
trim(s) == trim_end(trim_start(s))

Ok(v) == [err |-> "Ok", value |-> v]

Err(e) == [err |-> e, value |-> <<>>]

RECURSIVE split(_, _)
\* str::split(sep): the pieces between the separators
split(s, sep) ==
    IF \A i \in 1..Len(s) : s[i] # sep THEN <<s>>
    ELSE LET i == CHOOSE j \in 1..Len(s) : s[j] = sep /\ \A k \in 1..(j - 1) : s[k] # sep
         IN <<SubSeq(s, 1, i - 1)>> \o split(SubSeq(s, i + 1, Len(s)), sep)

(***************************************************************************)
(* src/infrastructure/sql_batch_template.rs                                 *)
(***************************************************************************)
\* extract_alias_from_table_factor: Option<&str>, <<>> for None else the string
extract_alias_from_table_factor(table_factor) ==
    IF table_factor.factor = "Table" THEN table_factor.alias ELSE <<>>

\* extract_main_table_alias reading the last joined table instead of the relation
extract_joined_table_alias(statement) ==
    IF statement.from = <<>> THEN <<>>
    ELSE IF statement.from[1].joins = <<>>
    THEN extract_alias_from_table_factor(statement.from[1].relation)
    ELSE extract_alias_from_table_factor(
             statement.from[1].joins[Len(statement.from[1].joins)].relation)

extract_main_table_alias(statement) ==
    CASE statement.kind = "Update" ->
            extract_alias_from_table_factor(statement.from[1].relation)
      [] statement.kind = "Delete" ->
            IF statement.from = <<>> THEN <<>>
            ELSE extract_alias_from_table_factor(statement.from[1].relation)
      [] statement.kind = "Query" /\ statement.body = "Select" ->
            IF statement.from = <<>> THEN <<>>
            ELSE extract_alias_from_table_factor(statement.from[1].relation)
      [] OTHER -> <<>>

build_primary_key_expr(primary_key, table_alias) ==
    LET trimmed_primary_key == trim(primary_key)
        identifier_parts ==
            SelectSeq([i \in 1..Len(split(trimmed_primary_key, ".")) |->
                          Ident(trim(split(trimmed_primary_key, ".")[i]))],
                      LAMBDA part : part.value # <<>>)
    IN IF trimmed_primary_key = <<>> THEN Err("EmptyPrimaryKey")
       ELSE IF \E i \in 1..Len(trimmed_primary_key) : trimmed_primary_key[i] = "."
            THEN IF Len(identifier_parts) < 2 THEN Err("QualifiedPrimaryKeyIncomplete")
                 ELSE Ok(CompoundIdentifier(identifier_parts))
       ELSE IF table_alias # <<>>
            THEN Ok(CompoundIdentifier(<<Ident(table_alias), Ident(trimmed_primary_key)>>))
       ELSE Ok(Identifier(Ident(trimmed_primary_key)))

\* parse_single_statement without the statement_count check
parse_first_statement(raw_sql) ==
    LET statements == parse_sql(raw_sql)
    IN IF ~statements.ok THEN Err("ParseFailed")
       ELSE IF Len(statements.statements) = 0 THEN Err("NotExactlyOneStatement")
       ELSE Ok(statements.statements[1])

parse_single_statement(raw_sql) ==
    LET statements == parse_sql(raw_sql)
    IN IF ~statements.ok THEN Err("ParseFailed")
       ELSE IF Len(statements.statements) # 1 THEN Err("NotExactlyOneStatement")
       ELSE Ok(statements.statements[1])

SqlParserBatchTemplate_parse(raw_sql, primary_key) ==
    IF trim(raw_sql.text) = <<>> THEN Err("EmptySql")
    ELSE LET statement == parse_single_statement(raw_sql) IN
         IF statement.err # "Ok" THEN statement
         ELSE LET table_alias == extract_main_table_alias(statement.value)
                  qualified_primary_key_expr ==
                      build_primary_key_expr(primary_key.text, table_alias)
              IN IF qualified_primary_key_expr.err # "Ok" THEN qualified_primary_key_expr
                 ELSE Ok([base_statement |-> statement.value,
                          qualified_primary_key_expr |-> qualified_primary_key_expr.value])

merge_selection(existing_selection, batch_condition) ==
    IF existing_selection # <<>>
    THEN <<BinaryOp(batch_condition, "AND", Nested(existing_selection[1]))>>
    ELSE <<batch_condition>>

inject_batch_condition(statement, batch_condition) ==
    CASE statement.kind = "Update" ->
            Ok([statement EXCEPT !.selection = merge_selection(@, batch_condition)])
      [] statement.kind = "Delete" ->
            Ok([statement EXCEPT !.selection = merge_selection(@, batch_condition)])
      [] statement.kind = "Query" /\ statement.body = "Select" ->
            Ok([statement EXCEPT !.selection = merge_selection(@, batch_condition)])
      [] statement.kind = "Query" -> Err("UnsupportedQueryBody")
      [] OTHER -> Err("UnsupportedStatement")

\* i128::to_string
to_string(id) == ToString(id)

render_for_range(self, start_id, end_id) ==
    LET batch_condition_expr ==
            Between(self.qualified_primary_key_expr,
                    Number(to_string(start_id)), Number(to_string(end_id)))
        statement_for_batch == inject_batch_condition(self.base_statement, batch_condition_expr)
    IN IF statement_for_batch.err # "Ok" THEN statement_for_batch
       ELSE Ok(statement_to_string(statement_for_batch.value))

(***************************************************************************)
(* src/batch/mod.rs                                                         *)
(***************************************************************************)
Unqualified(ident) == [variant |-> "Unqualified", parts |-> <<ident>>]

Qualified(parts) == [variant |-> "Qualified", parts |-> parts]

\* PrimaryKey::parse: the probe "SELECT {raw} FROM __pk_probe" is parsed and
\* only an identifier path in its single projection is kept
PrimaryKey_parse(raw) ==
    LET statements == raw.probe IN
    IF ~statements.ok THEN Err("InvalidPrimaryKeyExpression")
    ELSE IF statements.statements = <<>> THEN Err("InvalidPrimaryKeyExpression")
    ELSE LET statement == statements.statements[Len(statements.statements)] IN
         IF statement.kind # "Query" THEN Err("InvalidPrimaryKeyExpression")
         ELSE IF statement.body # "Select" THEN Err("InvalidPrimaryKeyExpression")
         ELSE IF ~(/\ Len(statement.projection) = 1
                   /\ statement.projection[1].item = "UnnamedExpr")
              THEN Err("InvalidPrimaryKeyExpression")
         ELSE LET expression == statement.projection[1].expr IN
              CASE expression.t = "Identifier" -> Ok(Unqualified(expression.parts[1]))
                [] expression.t = "CompoundIdentifier" -> Ok(Qualified(expression.parts))
                [] OTHER -> Err("InvalidPrimaryKeyExpression")

PrimaryKey_new(value) ==
    IF trim(value.text) = <<>> THEN Err("EmptyPrimaryKey") ELSE PrimaryKey_parse(value)

\* to_expr that prefixes the resolved target to a qualified key as well
to_expr_prepending_target(self, target_table) ==
    IF target_table # <<>>
    THEN CompoundIdentifier(<<Ident(target_table)>> \o self.parts)
    ELSE CompoundIdentifier(self.parts)

\* PrimaryKey::to_expr
to_expr(self, target_table) ==
    IF self.variant = "Unqualified"
    THEN IF target_table # <<>>
         THEN CompoundIdentifier(<<Ident(target_table), self.parts[1]>>)
         ELSE Identifier(self.parts[1])
    ELSE CompoundIdentifier(self.parts)

BatchConfig_new(primary_key, start_pk, end_pk, batch_size) ==
    LET key == PrimaryKey_new(primary_key) IN
    IF key.err # "Ok" THEN key
    ELSE IF IdRange_new(start_pk, end_pk) # "Ok" THEN Err(IdRange_new(start_pk, end_pk))
    ELSE IF BatchSize_new(batch_size) # "Ok" THEN Err(BatchSize_new(batch_size))
    ELSE Ok([primary_key |-> key.value,
             full_range |-> [start |-> start_pk, end |-> end_pk],
             batch_size |-> batch_size])

\* DmlStatement::object_table_name: the last identifier of the name
object_table_name(name) == IF name = <<>> THEN <<>> ELSE <<name[Len(name)]>>

\* target_name_from_table_factor taking the alias of any table factor
target_name_from_any_factor(table_factor) ==
    IF table_factor.alias # <<>> THEN table_factor.alias
    ELSE object_table_name(table_factor.name)

target_name_from_table_factor(table_factor) ==
    IF table_factor.factor = "Table"
    THEN IF table_factor.alias # <<>> THEN table_factor.alias
         ELSE object_table_name(table_factor.name)
    ELSE <<>>

\* resolve_target_table without the MissingDeleteTargetTable return
resolve_target_table_or_none(statement) ==
    CASE statement.kind = "Update" ->
            Ok(target_name_from_table_factor(statement.from[1].relation))
      [] statement.kind = "Delete" ->
            IF statement.tables # <<>> /\ object_table_name(statement.tables[1]) # <<>>
            THEN Ok(object_table_name(statement.tables[1]))
            ELSE IF statement.from = <<>> THEN Ok(<<>>)
            ELSE Ok(target_name_from_table_factor(statement.from[1].relation))
      [] OTHER -> Err("UnsupportedStatement")

resolve_target_table(statement) ==
    CASE statement.kind = "Update" ->
            Ok(target_name_from_table_factor(statement.from[1].relation))
      [] statement.kind = "Delete" ->
            IF statement.tables # <<>> /\ object_table_name(statement.tables[1]) # <<>>
            THEN Ok(object_table_name(statement.tables[1]))
            ELSE IF statement.from = <<>> THEN Err("MissingDeleteTargetTable")
            ELSE Ok(target_name_from_table_factor(statement.from[1].relation))
      [] OTHER -> Err("UnsupportedStatement")

\* DmlStatement::parse without the gate on the statement kind
DmlStatement_parse_any_kind(raw_sql) ==
    IF trim(raw_sql.text) = <<>> THEN Err("EmptySql")
    ELSE LET statements == parse_sql(raw_sql) IN
         IF ~statements.ok THEN Err("ParseFailed")
         ELSE IF Len(statements.statements) # 1 THEN Err("MultipleStatements")
         ELSE LET statement == statements.statements[1] IN
              IF statement.kind \in {"Update", "Delete"}
              THEN LET target_table == resolve_target_table(statement) IN
                   IF target_table.err # "Ok" THEN target_table
                   ELSE Ok([statement |-> statement, target_table |-> target_table.value])
              ELSE Ok([statement |-> statement, target_table |-> <<>>])

\* DmlStatement::parse reporting a text without statements as EmptySql
DmlStatement_parse_empty_as_blank(raw_sql) ==
    IF trim(raw_sql.text) = <<>> THEN Err("EmptySql")
    ELSE LET statements == parse_sql(raw_sql) IN
         IF ~statements.ok THEN Err("ParseFailed")
         ELSE IF Len(statements.statements) = 0 THEN Err("EmptySql")
         ELSE IF Len(statements.statements) # 1 THEN Err("MultipleStatements")
         ELSE LET statement == statements.statements[1] IN
              IF statement.kind \in {"Update", "Delete"}
              THEN LET target_table == resolve_target_table(statement) IN
                   IF target_table.err # "Ok" THEN target_table
                   ELSE Ok([statement |-> statement, target_table |-> target_table.value])
              ELSE Err("UnsupportedStatement")

DmlStatement_parse(raw_sql) ==
    IF trim(raw_sql.text) = <<>> THEN Err("EmptySql")
    ELSE LET statements == parse_sql(raw_sql) IN
         IF ~statements.ok THEN Err("ParseFailed")
         ELSE IF Len(statements.statements) # 1 THEN Err("MultipleStatements")
         ELSE LET statement == statements.statements[1] IN
              IF statement.kind \in {"Update", "Delete"}
              THEN LET target_table == resolve_target_table(statement) IN
                   IF target_table.err # "Ok" THEN target_table
                   ELSE Ok([statement |-> statement, target_table |-> target_table.value])
              ELSE Err("UnsupportedStatement")

SqlBatchJob_from_request(request) ==
    LET config == BatchConfig_new(request.primary_key, request.start_id, request.end_id,
                                  request.batch_size)
    IN IF config.err # "Ok" THEN config
       ELSE LET statement == DmlStatement_parse(request.raw_sql) IN
            IF statement.err # "Ok" THEN statement
            ELSE Ok([config |-> config.value, statement |-> statement.value])

\* DmlStatement::merge_selection
Dml_merge_selection(existing, batch_condition) ==
    IF existing # <<>> THEN BinaryOp(batch_condition, "AND", Nested(existing[1]))
    ELSE batch_condition

\* inject_batch_condition with the UPDATE arm's `*limit = None` left out
Dml_inject_keeping_update_limit(statement, batch_condition) ==
    CASE statement.kind = "Update" ->
            Ok([statement EXCEPT
                    !.selection = <<Dml_merge_selection(@, batch_condition)>>])
      [] statement.kind = "Delete" ->
            Ok([statement EXCEPT
                    !.selection = <<Dml_merge_selection(@, batch_condition)>>,
                    !.order_by = <<>>,
                    !.limit = <<>>])
      [] OTHER -> Err("UnsupportedStatement")

\* inject_batch_condition that also empties the join list of the first table
Dml_inject_dropping_joins(statement, batch_condition) ==
    CASE statement.kind = "Update" ->
            Ok([statement EXCEPT
                    !.selection = <<Dml_merge_selection(@, batch_condition)>>,
                    !.from = <<TableWithJoins(@[1].relation, <<>>)>>,
                    !.limit = <<>>])
      [] statement.kind = "Delete" ->
            Ok([statement EXCEPT
                    !.selection = <<Dml_merge_selection(@, batch_condition)>>,
                    !.from = <<TableWithJoins(@[1].relation, <<>>)>>,
                    !.order_by = <<>>,
                    !.limit = <<>>])
      [] OTHER -> Err("UnsupportedStatement")

\* DmlStatement::inject_batch_condition
Dml_inject_batch_condition(statement, batch_condition) ==
    CASE statement.kind = "Update" ->
            Ok([statement EXCEPT
                    !.selection = <<Dml_merge_selection(@, batch_condition)>>,
                    !.limit = <<>>])
      [] statement.kind = "Delete" ->
            Ok([statement EXCEPT
                    !.selection = <<Dml_merge_selection(@, batch_condition)>>,
                    !.order_by = <<>>,
                    !.limit = <<>>])
      [] OTHER -> Err("UnsupportedStatement")

build_batch_condition(self, primary_key, range) ==
    Between(to_expr(primary_key, self.target_table),
            Number(to_string(range.start)), Number(to_string(range.end)))

RECURSIVE injected_so_far(_, _, _)
\* the stored statement after the conditions of ranges were injected into it
injected_so_far(self, primary_key, ranges) ==
    IF ranges = <<>> THEN self.statement
    ELSE Dml_inject_batch_condition(
             injected_so_far(self, primary_key, SubSeq(ranges, 1, Len(ranges) - 1)),
             build_batch_condition(self, primary_key, ranges[Len(ranges)])).value

\* to_batched_statement without the clone: the condition goes into the stored
\* statement, which holds those of the sub-ranges rendered before
to_batched_statement_in_place(self, primary_key, range) ==
    Dml_inject_batch_condition(injected_so_far(self, primary_key, out),
                               build_batch_condition(self, primary_key, range))

to_batched_statement(self, primary_key, range) ==
    Dml_inject_batch_condition(self.statement, build_batch_condition(self, primary_key, range))

(***************************************************************************)
(* src/main.rs: the text based template.  The regular expressions work on   *)
(* the text; between two tokens there is white space unless a bracket joins *)
(* them.                                                                    *)
(***************************************************************************)
SpaceBefore(s, i) == i > 1 /\ s[i - 1] # "("

SpaceAfter(s, i) == i < Len(s) /\ s[i + 1] \notin {")", ",", ";"}

RECURSIVE trim_end_matches(_, _)
\* str::trim_end_matches(';')
trim_end_matches(s, c) ==
    IF s # <<>> /\ s[Len(s)] = c THEN trim_end_matches(SubSeq(s, 1, Len(s) - 1), c) ELSE s

\* TAILING_ORDER_LIMIT_RE  (?is)\s+(ORDER\s+BY|LIMIT)\b.*$  matches at token i
tailing_order_limit_at(s, i) ==
    /\ SpaceBefore(s, i)
    /\ \/ s[i] = "LIMIT"
       \/ s[i] = "ORDER" /\ i < Len(s) /\ s[i + 1] = "BY"

\* TAILING_ORDER_LIMIT_RE.replace(text, ""): the leftmost match runs to the end
strip_tailing_order_limit(s) ==
    IF \E i \in 1..Len(s) : tailing_order_limit_at(s, i)
    THEN LET i == CHOOSE j \in 1..Len(s) :
                     /\ tailing_order_limit_at(s, j)
                     /\ \A k \in 1..(j - 1) : ~tailing_order_limit_at(s, k)
         IN SubSeq(s, 1, i - 1)
    ELSE s

\* WHERE_RE  (?is)\s+WHERE\s+  matches at token i
where_at(s, i) == s[i] = "WHERE" /\ SpaceBefore(s, i) /\ SpaceAfter(s, i)

SqlSlicerTemplate_from(raw_sql) ==
    LET trimmed == trim(raw_sql.text)
        cleaned == strip_tailing_order_limit(trim_end_matches(trimmed, ";"))
    IN IF trimmed = <<>> THEN Err("EmptySql")
       ELSE IF \E i \in 1..Len(cleaned) : where_at(cleaned, i)
            THEN LET mat == CHOOSE j \in 1..Len(cleaned) :
                               /\ where_at(cleaned, j)
                               /\ \A k \in (j + 1)..Len(cleaned) : ~where_at(cleaned, k)
                 IN Ok([prefix |-> trim(SubSeq(cleaned, 1, mat - 1)),
                        condition |-> <<trim(SubSeq(cleaned, mat + 1, Len(cleaned)))>>])
       ELSE Ok([prefix |-> trim(cleaned), condition |-> <<>>])

\* one writeln! of SqlSlicerTemplate::render_to
SqlSlicerTemplate_render(self, start, end) ==
    LET suffix == IF self.condition # <<>>
                  THEN <<"AND", "(">> \o self.condition[1] \o <<")">>
                  ELSE <<>>
    IN self.prefix \o <<"WHERE", "id", "BETWEEN", to_string(start), "AND", to_string(end)>>
           \o suffix \o <<";">>

(***************************************************************************)
(* The slicers on their own, over every range of the width.                 *)
(***************************************************************************)
InitSlice ==
    /\ prog \in Slicers
    /\ pc = "new"
    /\ cmd \in [start_id : Ids, end_id : Ids, batch_size : 0..MaxBatch]
    /\ iter = NoIter
    /\ out = <<>>
    /\ result = NoResult
    /\ tmpl = NoTmpl
    /\ file = NoFile

\* the constructor: rejects, or hands out the iterator
SliceNew ==
    /\ pc = "new"
    /\ prog \in Slicers
    /\ LET built == slicer_new(prog, cmd.start_id, cmd.end_id, cmd.batch_size) IN
       /\ result' = IF built = "Ok" THEN Ok(<<>>) ELSE Err(built)
       /\ pc' = IF built = "Ok" THEN "iter" ELSE "rejected"
       /\ iter' = IF built = "Ok"
                  THEN step_by(RangeInclusive(cmd.start_id, cmd.end_id), cmd.batch_size)
                  ELSE iter
    /\ UNCHANGED <<prog, cmd, out, tmpl, file>>

\* one next() of the mapped iterator
SliceNext ==
    /\ pc = "iter"
    /\ prog \in Slicers
    /\ LET got == step_by_next(iter) IN
       /\ iter' = got.iter
       /\ IF got.item.some
          THEN \E r \in slicer_map(prog, got.item.value, cmd.batch_size, cmd.end_id) :
                  IF r.panic
                  THEN pc' = "panicked" /\ out' = out
                  ELSE pc' = "iter" /\ out' = Append(out, r)
          ELSE pc' = "done" /\ out' = out
    /\ UNCHANGED <<prog, cmd, result, tmpl, file>>

NextSlice == SliceNew \/ SliceNext

SpecSlice == InitSlice /\ [][NextSlice]_vars

(***************************************************************************)
(* The three programs.  Commands take their ids from the top of the width,  *)
(* where the slicer's arithmetic meets i128::MAX.                           *)
(***************************************************************************)
PipeSpan == 2

PipeBatch == 2

PipeIds == (IdMax - PipeSpan)..IdMax

Commands ==
    [start_id : PipeIds, end_id : PipeIds, batch_size : 0..PipeBatch,
     raw_sql : RawSqls, primary_key : PrimaryKeys]

\* main.rs has no primary key option: the key is the literal `id`
RunConfigs ==
    [start_id : PipeIds, end_id : PipeIds, batch_size : 0..PipeBatch,
     raw_sql : RawSqls \cup {[r EXCEPT !.text = @ \o <<";">>] : r \in RawSqls},
     primary_key : {[text |-> <<"id">>, probe |-> Probe(Identifier(Ident(<<"id">>)))]}]

Compiled(value) == [compiled |-> TRUE, value |-> value]

InitProgram(p, inputs) ==
    /\ prog = p
    /\ pc = "start"
    /\ cmd \in inputs
    /\ iter = NoIter
    /\ out = <<>>
    /\ result = NoResult
    /\ tmpl = NoTmpl
    /\ file = NoFile

\* File::create: the file exists and is empty, or the call fails
CreateFile(next, p) ==
    /\ prog = p
    /\ pc = "create"
    /\ \E io_ok \in BOOLEAN :
          IF io_ok
          THEN /\ file' = [file EXCEPT !.created = TRUE]
               /\ pc' = next
               /\ result' = result
          ELSE /\ file' = file
               /\ pc' = "failed"
               /\ result' = Err("Io")
    /\ UNCHANGED <<prog, cmd, iter, out, tmpl>>

\* a writer whose drop releases the file without flushing the buffer
drop_without_flush(f, io_ok) == [f EXCEPT !.closed = TRUE]

\* Drop for BufWriter: what the buffer still holds is flushed, and an error of
\* that flush is ignored; an empty buffer needs no write
drop_writer(f, io_ok) ==
    IF f.flushed \/ f.lines = <<>> THEN [f EXCEPT !.closed = TRUE, !.flushed = TRUE]
    ELSE [f EXCEPT !.closed = TRUE, !.flushed = io_ok, !.flush_failed = @ \/ ~io_ok]

\* the function's scope ends: execute and run own a BufWriter, which is
\* dropped; render_to leaves its writer to the caller
exit_scope(p, f, drop_ok) == IF p \in {"execute", "run"} THEN drop_writer(f, drop_ok) ELSE f

\* the body of a rendering loop for the next sub-range: batches holds, for
\* each sub-range the slicer may map the start to, the line or the error.
\* A panic unwinds through the scope or aborts the process.
RenderBatch(p, batches) ==
    /\ prog = p
    /\ pc = "loop"
    /\ step_by_next(iter).item.some
    /\ iter' = step_by_next(iter).iter
    /\ \E b \in batches, io_ok \in BOOLEAN, drop_ok \in BOOLEAN, unwinds \in BOOLEAN :
          IF b.range.panic
          THEN /\ io_ok
               /\ pc' = "panicked"
               /\ file' = IF unwinds THEN exit_scope(p, file, drop_ok) ELSE file
               /\ UNCHANGED <<out, result>>
          ELSE IF b.line.err # "Ok"
          THEN /\ io_ok /\ unwinds
               /\ pc' = "failed"
               /\ result' = Err(b.line.err)
               /\ file' = exit_scope(p, file, drop_ok)
               /\ out' = out
          ELSE IF io_ok
          THEN /\ drop_ok /\ unwinds
               /\ pc' = "loop"
               /\ file' = [file EXCEPT !.lines = Append(@, b.line.value)]
               /\ out' = Append(out, b.range)
               /\ result' = result
          ELSE /\ unwinds
               /\ pc' = "failed"
               /\ result' = Err("Io")
               /\ file' = exit_scope(p, file, drop_ok)
               /\ out' = out
    /\ UNCHANGED <<prog, cmd, tmpl>>

\* the loop is over: flush (where the program flushes) and return
Finish(p, flushes, value) ==
    /\ prog = p
    /\ pc = "loop"
    /\ ~step_by_next(iter).item.some
    /\ iter' = step_by_next(iter).iter
    /\ \E io_ok \in BOOLEAN, drop_ok \in BOOLEAN :
          IF io_ok \/ ~flushes
          THEN /\ io_ok /\ drop_ok
               /\ pc' = "done"
               /\ file' = exit_scope(p, [file EXCEPT !.flushed = flushes], drop_ok)
               /\ result' = Ok(value)
          ELSE /\ pc' = "failed"
               /\ file' = exit_scope(p, [file EXCEPT !.flush_failed = TRUE], drop_ok)
               /\ result' = Err("Io")
    /\ UNCHANGED <<prog, cmd, out, tmpl>>

\* a compile step: on success the template and the iterator, else the error
Compile(p, compiled, next) ==
    /\ prog = p
    /\ pc = "start"
    /\ IF compiled.err = "Ok"
       THEN /\ tmpl' = Compiled(compiled.value)
            /\ iter' = step_by(RangeInclusive(cmd.start_id, cmd.end_id), cmd.batch_size)
            /\ pc' = next
            /\ result' = result
       ELSE /\ tmpl' = tmpl
            /\ iter' = iter
            /\ pc' = "failed"
            /\ result' = Err(compiled.err)
    /\ UNCHANGED <<prog, cmd, out, file>>

(***************************************************************************)
(* GenerateBatchedSqlUseCase::execute                                       *)
(***************************************************************************)
\* IdBatchSlicer::new(..)?  then  SqlParserBatchTemplate::parse(..)?
execute_compile(command) ==
    IF IdBatchSlicer_new(command.start_id, command.end_id, command.batch_size) # "Ok"
    THEN Err(IdBatchSlicer_new(command.start_id, command.end_id, command.batch_size))
    ELSE SqlParserBatchTemplate_parse(command.raw_sql, command.primary_key)

\* the loop body writing the rendered text as it is
execute_line_without_terminator(sql_template, id_range) ==
    render_for_range(sql_template, id_range.start, id_range.end)

\* render_for_range(..)?, then the terminator is pushed unless the text ends with one
execute_line(sql_template, id_range) ==
    LET rendered_sql == render_for_range(sql_template, id_range.start, id_range.end) IN
    IF rendered_sql.err # "Ok" THEN rendered_sql
    ELSE IF trim_end(rendered_sql.value) # <<>>
            /\ trim_end(rendered_sql.value)[Len(trim_end(rendered_sql.value))] = ";"
         THEN rendered_sql
    ELSE Ok(rendered_sql.value \o <<";">>)

InitExecute == InitProgram("execute", Commands)

ExecuteCompile == Compile("execute", execute_compile(cmd), "create")

ExecuteCreateFile == CreateFile("loop", "execute")

ExecuteBatch ==
    RenderBatch("execute",
                {[range |-> r, line |-> execute_line(tmpl.value, r)] :
                    r \in iter_ranges(step_by_next(iter).item.value, cmd.batch_size, cmd.end_id)})

ExecuteFinish == Finish("execute", TRUE, Len(out))

NextExecute == ExecuteCompile \/ ExecuteCreateFile \/ ExecuteBatch \/ ExecuteFinish

SpecExecute == InitExecute /\ [][NextExecute]_vars

(***************************************************************************)
(* SqlBatchJob::from_request, then SqlBatchJob::render_to(writer)           *)
(***************************************************************************)
\* one pass of render_to's loop: the statement, or the error as InvalidInput
render_to_line(self, range) ==
    LET statement == to_batched_statement(self.statement, self.config.primary_key, range) IN
    IF statement.err # "Ok" THEN Err("InvalidInput")
    ELSE Ok(statement_to_string(statement.value) \o <<";">>)

\* BatchRequest: the commands, and those whose statement names no table
BatchRequests ==
    Commands \cup [start_id : PipeIds, end_id : PipeIds, batch_size : 0..PipeBatch,
                   raw_sql : {Single(DeleteNoTable)}, primary_key : PrimaryKeys]

InitJob == InitProgram("job", BatchRequests)

JobFromRequest == Compile("job", SqlBatchJob_from_request(cmd), "loop")

JobRenderBatch ==
    RenderBatch("job",
                {[range |-> r, line |-> render_to_line(tmpl.value, r)] :
                    r \in split_by(step_by_next(iter).item.value, cmd.batch_size, cmd.end_id)})

JobRenderEnd == Finish("job", FALSE, <<>>)

NextJob == JobFromRequest \/ JobRenderBatch \/ JobRenderEnd

SpecJob == InitJob /\ [][NextJob]_vars

(***************************************************************************)
(* main.rs: run(config)                                                     *)
(***************************************************************************)
\* IdSlicer::build(..)?  then  SqlSlicerTemplate::from(..)?
run_compile(config) ==
    IF IdSlicer_build(config.start_id, config.end_id, config.batch_size) # "Ok"
    THEN Err(IdSlicer_build(config.start_id, config.end_id, config.batch_size))
    ELSE SqlSlicerTemplate_from(config.raw_sql)

InitRun == InitProgram("run", RunConfigs)

RunCompile == Compile("run", run_compile(cmd), "create")

RunCreateFile == CreateFile("loop", "run")

RunRenderBatch ==
    RenderBatch("run",
                {[range |-> r, line |-> Ok(SqlSlicerTemplate_render(tmpl.value, r.start, r.end))] :
                    r \in slice_id(step_by_next(iter).item.value, cmd.batch_size, cmd.end_id)})

RunFinish == Finish("run", TRUE, <<>>)

NextRun == RunCompile \/ RunCreateFile \/ RunRenderBatch \/ RunFinish

SpecRun == InitRun /\ [][NextRun]_vars

(***************************************************************************)
(* src/interfaces/cli.rs: collect_command_from_args(args)                   *)
(***************************************************************************)
\* impl From<CliDialect> for SqlDialectKind
CliDialect_into(value) ==
    CASE value = "Generic" -> "Generic"
      [] value = "Mysql" -> "MySql"
      [] value = "Postgres" -> "PostgreSql"
      [] value = "Sqlite" -> "Sqlite"
      [] value = "Mssql" -> "MsSql"
      [] value = "Snowflake" -> "Snowflake"
      [] value = "Duckdb" -> "DuckDb"

CliDialect == {"Generic", "Mysql", "Postgres", "Sqlite", "Mssql", "Snowflake", "Duckdb"}

\* the texts of --sql and of the SQL file: a statement, blanks, nothing
SqlTexts == {<<"DELETE", "FROM", "users">>, <<" ">>, <<>>}

\* a path of --sql-file with what fs::read_to_string gives for it
SqlFiles == {[path |-> "q.sql", read |-> r] : r \in {Err("NotFound")} \cup {Ok(t) : t \in SqlTexts}}

\* CliArgs as clap parsed them: an Option is a sequence of at most one value
CliArgs ==
    [start_id : {<<>>} \cup {<<i>> : i \in PipeIds},
     end_id : {<<>>} \cup {<<i>> : i \in PipeIds},
     batch_size : {PipeBatch},
     sql : {<<>>} \cup {<<t>> : t \in SqlTexts},
     sql_file : {<<>>} \cup {<<f>> : f \in SqlFiles},
     output : {"id_slice.sql"},
     primary_key : {<<"id">>, <<" ">>, <<" ", "u", ".", "id">>},
     dialect : CliDialect]

ensure_non_empty_value(value, field_name) ==
    IF trim(value) = <<>> THEN Err(field_name \o " must not be empty") ELSE Ok(value)

read_sql_file(path) ==
    IF path.read.err # "Ok" THEN Err("Unable to read SQL file")
    ELSE ensure_non_empty_value(path.read.value, "Input SQL")

\* read_sql_from_sources taking --sql when both sources are given
read_sql_preferring_inline(sql, sql_file) ==
    CASE sql # <<>> -> ensure_non_empty_value(sql[1], "Input SQL")
      [] sql = <<>> /\ sql_file # <<>> -> read_sql_file(sql_file[1])
      [] OTHER -> Err("One of --sql or --sql-file is required when using argument mode")

read_sql_from_sources(sql, sql_file) ==
    CASE sql # <<>> /\ sql_file # <<>> ->
            Err("Please provide only one of --sql or --sql-file")
      [] sql # <<>> /\ sql_file = <<>> -> ensure_non_empty_value(sql[1], "Input SQL")
      [] sql = <<>> /\ sql_file # <<>> -> read_sql_file(sql_file[1])
      [] OTHER -> Err("One of --sql or --sql-file is required when using argument mode")

collect_command_from_args(args) ==
    IF args.start_id = <<>> THEN Err("--start-id is required when using argument mode")
    ELSE IF args.end_id = <<>> THEN Err("--end-id is required when using argument mode")
    ELSE LET raw_sql == read_sql_from_sources(args.sql, args.sql_file) IN
         IF raw_sql.err # "Ok" THEN raw_sql
         ELSE LET primary_key == ensure_non_empty_value(args.primary_key, "Primary key") IN
              IF primary_key.err # "Ok" THEN primary_key
              ELSE Ok([start_id |-> args.start_id[1],
                       end_id |-> args.end_id[1],
                       batch_size |-> args.batch_size,
                       raw_sql |-> raw_sql.value,
                       output_path |-> args.output,
                       primary_key |-> primary_key.value,
                       dialect_kind |-> CliDialect_into(args.dialect)])

InitArgs == InitProgram("args", CliArgs)

CollectCommandFromArgs ==
    /\ prog = "args"
    /\ pc = "start"
    /\ result' = collect_command_from_args(cmd)
    /\ pc' = IF collect_command_from_args(cmd).err = "Ok" THEN "done" ELSE "failed"
    /\ UNCHANGED <<prog, cmd, iter, out, tmpl, file>>

NextArgs == CollectCommandFromArgs

SpecArgs == InitArgs /\ [][NextArgs]_vars

(***************************************************************************)
(* src/domain/sql_dialect.rs: SqlDialectKind                                *)
(* A string is the sequence of its characters.                              *)
(***************************************************************************)
SqlDialectKind_ALL ==
    <<"Generic", "MySql", "PostgreSql", "Sqlite", "MsSql", "Snowflake", "DuckDb">>

as_str(self) ==
    CASE self = "Generic" -> <<"g", "e", "n", "e", "r", "i", "c">>
      [] self = "MySql" -> <<"m", "y", "s", "q", "l">>
      [] self = "PostgreSql" -> <<"p", "o", "s", "t", "g", "r", "e", "s">>
      [] self = "Sqlite" -> <<"s", "q", "l", "i", "t", "e">>
      [] self = "MsSql" -> <<"m", "s", "s", "q", "l">>
      [] self = "Snowflake" -> <<"s", "n", "o", "w", "f", "l", "a", "k", "e">>
      [] self = "DuckDb" -> <<"d", "u", "c", "k", "d", "b">>

UpperCase == <<"A", "B", "C", "D", "E", "F", "G", "H", "I", "J", "K", "L", "M",
               "N", "O", "P", "Q", "R", "S", "T", "U", "V", "W", "X", "Y", "Z">>

LowerCase == <<"a", "b", "c", "d", "e", "f", "g", "h", "i", "j", "k", "l", "m",
               "n", "o", "p", "q", "r", "s", "t", "u", "v", "w", "x", "y", "z">>

\* str::to_ascii_lowercase: A..Z become a..z, every other character is kept
to_ascii_lowercase(s) ==
    [i \in 1..Len(s) |->
        IF \E k \in 1..26 : UpperCase[k] = s[i]
        THEN LowerCase[CHOOSE k \in 1..26 : UpperCase[k] = s[i]]
        ELSE s[i]]

\* from_str with Generic in place of the error
from_str_or_generic(value) ==
    LET lowered == to_ascii_lowercase(trim(value)) IN
    CASE lowered = <<"g", "e", "n", "e", "r", "i", "c">> -> Ok("Generic")
      [] lowered = <<"m", "y", "s", "q", "l">> -> Ok("MySql")
      [] lowered = <<"p", "o", "s", "t", "g", "r", "e", "s">> -> Ok("PostgreSql")
      [] lowered = <<"p", "o", "s", "t", "g", "r", "e", "s", "q", "l">> -> Ok("PostgreSql")
      [] lowered = <<"s", "q", "l", "i", "t", "e">> -> Ok("Sqlite")
      [] lowered = <<"m", "s", "s", "q", "l">> -> Ok("MsSql")
      [] lowered = <<"s", "q", "l", "s", "e", "r", "v", "e", "r">> -> Ok("MsSql")
      [] lowered = <<"s", "q", "l", "_", "s", "e", "r", "v", "e", "r">> -> Ok("MsSql")
      [] lowered = <<"s", "n", "o", "w", "f", "l", "a", "k", "e">> -> Ok("Snowflake")
      [] lowered = <<"d", "u", "c", "k", "d", "b">> -> Ok("DuckDb")
      [] lowered = <<"d", "u", "c", "k", "_", "d", "b">> -> Ok("DuckDb")
      [] OTHER -> Ok("Generic")

\* impl FromStr for SqlDialectKind
from_str(value) ==
    LET lowered == to_ascii_lowercase(trim(value)) IN
    CASE lowered = <<"g", "e", "n", "e", "r", "i", "c">> -> Ok("Generic")
      [] lowered = <<"m", "y", "s", "q", "l">> -> Ok("MySql")
      [] lowered = <<"p", "o", "s", "t", "g", "r", "e", "s">> -> Ok("PostgreSql")
      [] lowered = <<"p", "o", "s", "t", "g", "r", "e", "s", "q", "l">> -> Ok("PostgreSql")
      [] lowered = <<"s", "q", "l", "i", "t", "e">> -> Ok("Sqlite")
      [] lowered = <<"m", "s", "s", "q", "l">> -> Ok("MsSql")
      [] lowered = <<"s", "q", "l", "s", "e", "r", "v", "e", "r">> -> Ok("MsSql")
      [] lowered = <<"s", "q", "l", "_", "s", "e", "r", "v", "e", "r">> -> Ok("MsSql")
      [] lowered = <<"s", "n", "o", "w", "f", "l", "a", "k", "e">> -> Ok("Snowflake")
      [] lowered = <<"d", "u", "c", "k", "d", "b">> -> Ok("DuckDb")
      [] lowered = <<"d", "u", "c", "k", "_", "d", "b">> -> Ok("DuckDb")
      [] OTHER -> Err("Unsupported dialect")

\* the words given as a dialect: the names, the aliases, and other words
DialectWords ==
    {<<"d", "u", "c", "k", "_", "d", "b">>,
     <<"d", "u", "c", "k", "d", "b">>,
     <<"g", "e", "n", "e", "r", "i", "c">>,
     <<"m", "s", "s", "q", "l">>,
     <<"m", "y", "s", "q", "l">>,
     <<"p", "o", "s", "t", "g", "r", "e", "s">>,
     <<"p", "o", "s", "t", "g", "r", "e", "s", "q", "l">>,
     <<"s", "n", "o", "w", "f", "l", "a", "k", "e">>,
     <<"s", "q", "l", "_", "s", "e", "r", "v", "e", "r">>,
     <<"s", "q", "l", "i", "t", "e">>,
     <<"s", "q", "l", "s", "e", "r", "v", "e", "r">>,
     <<"o", "r", "a", "c", "l", "e">>,
     <<>>,
     <<"m", "y", " ", "s", "q", "l">>,
     <<"p", "o", "s", "t", "g", "r", "e">>,
     <<"m", "y", "s", "q", "l", "l">>,
     <<"s", "q", "l", "-", "s", "e", "r", "v", "e", "r">>,
     <<"d", "u", "c", "k", " ", "d", "b">>}

\* the word in capitals
to_ascii_uppercase(s) ==
    [i \in 1..Len(s) |->
        IF \E k \in 1..26 : LowerCase[k] = s[i]
        THEN UpperCase[CHOOSE k \in 1..26 : LowerCase[k] = s[i]]
        ELSE s[i]]

\* the word with its first letter in capitals
capitalised(s) == IF s = <<>> THEN s ELSE to_ascii_uppercase(<<s[1]>>) \o Tail(s)

\* the strings given to from_str: each word in three spellings, bare and
\* with white space around it
DialectStrings ==
    {pad[1] \o w \o pad[2] :
        w \in DialectWords \cup {to_ascii_uppercase(x) : x \in DialectWords}
                \cup {capitalised(x) : x \in DialectWords},
        pad \in {<<<<>>, <<>>>>, <<<<" ">>, <<>>>>, <<<<>>, <<" ">>>>,
                 <<<<"\t", " ">>, <<"\n">>>>}}

InitDialect ==
    InitProgram("dialect",
                [dialect : {SqlDialectKind_ALL[i] : i \in 1..Len(SqlDialectKind_ALL)},
                 value : DialectStrings])

\* value.parse::<SqlDialectKind>()
DialectFromStr ==
    /\ prog = "dialect"
    /\ pc = "start"
    /\ result' = from_str(cmd.value)
    /\ pc' = "parsed"
    /\ UNCHANGED <<prog, cmd, iter, out, tmpl, file>>

\* dialect.as_str()
DialectAsStr ==
    /\ prog = "dialect"
    /\ pc = "start"
    /\ out' = as_str(cmd.dialect)
    /\ pc' = "named"
    /\ UNCHANGED <<prog, cmd, iter, result, tmpl, file>>

\* dialect.as_str().parse::<SqlDialectKind>()
DialectRoundTrip ==
    /\ prog = "dialect"
    /\ pc = "named"
    /\ result' = from_str(out)
    /\ pc' = "round_trip"
    /\ UNCHANGED <<prog, cmd, iter, out, tmpl, file>>

NextDialect == DialectFromStr \/ DialectAsStr \/ DialectRoundTrip

SpecDialect == InitDialect /\ [][NextDialect]_vars

(***************************************************************************)
(* Range slicer properties (SpecSlice).                                     *)
(***************************************************************************)
Sliced == prog \in Slicers /\ pc \in {"iter", "done", "panicked"}

Width(r) == r.end - r.start + 1

\* C1: for every start <= end and batch size n > 0 the sub-ranges a slicer
\* produces partition [start, end]: the first starts at start, each next one
\* starts at the previous end + 1, every one has start <= end, and the last
\* one ends exactly at end (so slicing runs to completion).
C1_SubRangesPartitionRange ==
    Sliced =>
        /\ pc # "panicked"
        /\ \A i \in 1..Len(out) : out[i].start <= out[i].end
        /\ Len(out) > 0 => out[1].start = cmd.start_id
        /\ \A i \in 1..(Len(out) - 1) : out[i + 1].start = out[i].end + 1
        /\ pc = "done" => Len(out) > 0 /\ out[Len(out)].end = cmd.end_id

\* C3: every sub-range has width exactly n except possibly the last, whose
\* width is between 1 and n; a range no wider than n gives the single
\* sub-range (start, end); a width not divisible by n caps the last sub-range
\* at end (1..5 by 2 gives (1,2),(3,4),(5,5)).
C3_WidthsAndCappedLast ==
    Sliced =>
        /\ pc # "panicked"
        /\ \A i \in 1..(Len(out) - 1) : Width(out[i]) = cmd.batch_size
        /\ Len(out) > 0 =>
              /\ Width(out[Len(out)]) >= 1
              /\ Width(out[Len(out)]) <= cmd.batch_size
        /\ (pc = "done" /\ cmd.end_id - cmd.start_id + 1 <= cmd.batch_size) =>
              out = <<SubRange(cmd.start_id, cmd.end_id)>>
        /\ (pc = "done" /\ cmd.start_id = 1 /\ cmd.end_id = 5 /\ cmd.batch_size = 2) =>
              out = <<SubRange(1, 2), SubRange(3, 4), SubRange(5, 5)>>
        /\ pc = "done" => out[Len(out)].end = cmd.end_id


(***************************************************************************)
(* What the inputs are, read off the input alone.                           *)
(***************************************************************************)
SingleStatement(c) ==
    /\ trim(c.raw_sql.text) # <<>>
    /\ c.raw_sql.parsed.ok
    /\ Len(c.raw_sql.parsed.statements) = 1

StatementOf(c) == c.raw_sql.parsed.statements[1]

\* UPDATE, DELETE, or a SELECT with a direct FROM clause
SupportedKind(st) ==
    st.kind \in {"Update", "Delete"} \/ (st.kind = "Query" /\ st.body = "Select")

\* the key string is a bare identifier or a dotted identifier path
IsIdentifierPath(key) ==
    /\ trim(key.text) # <<>>
    /\ key.probe.ok
    /\ key.probe.statements[1].projection[1].expr.t \in {"Identifier", "CompoundIdentifier"}

ValidRange(c) == c.start_id <= c.end_id /\ c.batch_size > 0

ValidCommand(c) ==
    /\ ValidRange(c)
    /\ SingleStatement(c)
    /\ SupportedKind(StatementOf(c))
    /\ IsIdentifierPath(c.primary_key)

Has(line, token) == \E i \in 1..Len(line) : line[i] = token

\* the i-th sub-range of the partition of [start, end] into batches of n
NthSubRange(c, i) ==
    SubRange(c.start_id + (i - 1) * c.batch_size,
             Min(c.start_id + i * c.batch_size - 1, c.end_id))

\* the line is a statement for sub-range r: its predicate reads BETWEEN r.start AND r.end
IsBatchFor(line, r) ==
    \E i \in 1..(Len(line) - 3) :
        /\ SubSeq(line, i, i + 3) = <<"BETWEEN", ToString(r.start), "AND", ToString(r.end)>>
        /\ \A j \in 1..Len(line) : line[j] = "BETWEEN" => j = i

(***************************************************************************)
(* Properties of the three programs.                                        *)
(***************************************************************************)
\* C2: for every valid command GenerateBatchedSqlUseCase::execute writes
\* exactly ceil((end-start+1)/batchSize) statements, one per sub-range, in
\* ascending sub-range order, none omitted or duplicated, and the batch_count
\* it returns is that number (barring an I/O error, execute returns Ok).
C2_ExecuteWritesOneStatementPerSubRange ==
    (prog = "execute" /\ ValidCommand(cmd)) =>
        /\ pc # "panicked"
        /\ pc = "failed" => result.err = "Io"
        /\ \A i \in 1..Len(file.lines) : IsBatchFor(file.lines[i], NthSubRange(cmd, i))
        /\ pc = "done" =>
              /\ Len(file.lines) = CeilDiv(cmd.end_id - cmd.start_id + 1, cmd.batch_size)
              /\ result = Ok(CeilDiv(cmd.end_id - cmd.start_id + 1, cmd.batch_size))

\* C5: a statement with a row-limit clause never retains it in a batch
\* rendered by SqlParserBatchTemplate::render_for_range / execute: for every
\* UPDATE, DELETE or SELECT input with a LIMIT, no written statement has one.
C5_ExecuteDropsLimit ==
    (/\ prog = "execute"
     /\ SingleStatement(cmd)
     /\ SupportedKind(StatementOf(cmd))
     /\ IsIdentifierPath(cmd.primary_key)
     /\ StatementOf(cmd).limit # <<>>) =>
        \A i \in 1..Len(file.lines) : ~Has(file.lines[i], "LIMIT")

JobWithLimit ==
    /\ prog = "job"
    /\ SingleStatement(cmd)
    /\ StatementOf(cmd).kind \in {"Update", "Delete"}
    /\ StatementOf(cmd).limit # <<>>

\* C6: for every UPDATE or DELETE with a LIMIT compiled by
\* SqlBatchJob::from_request, no statement SqlBatchJob::render_to writes
\* contains a LIMIT clause, whatever the sub-range.
C6_JobDropsLimit ==
    JobWithLimit => \A i \in 1..Len(file.lines) : ~Has(file.lines[i], "LIMIT")

\* an UPDATE with a LIMIT has been rendered for two sub-ranges
C6_Witness ==
    JobWithLimit /\ StatementOf(cmd).kind = "Update" /\ pc = "done" /\ Len(file.lines) = 2

\* C7: for a DELETE, any ORDER BY of the input is absent from every rendered
\* batch statement, in both condition injectors (SqlBatchJob and
\* SqlParserBatchTemplate).
C7_DeleteDropsOrderBy ==
    (/\ prog \in {"execute", "job"}
     /\ SingleStatement(cmd)
     /\ StatementOf(cmd).kind = "Delete"
     /\ IsIdentifierPath(cmd.primary_key)
     /\ StatementOf(cmd).order_by # <<>>) =>
        \A i \in 1..Len(file.lines) : ~Has(file.lines[i], "ORDER")

Depth(line, i) ==
    Cardinality({j \in 1..(i - 1) : line[j] = "("})
        - Cardinality({j \in 1..(i - 1) : line[j] = ")"})

\* the filter of a rendered statement: what follows its own WHERE, up to the
\* next clause or the terminator
FilterOf(line) ==
    LET wheres == {i \in 1..Len(line) : line[i] = "WHERE" /\ Depth(line, i) = 0} IN
    IF wheres = {} THEN <<>>
    ELSE LET w == CHOOSE i \in wheres : \A j \in wheres : i <= j
             ends == {i \in (w + 1)..Len(line) :
                         line[i] \in {"ORDER", "LIMIT", ";"} /\ Depth(line, i) = 0}
             e == IF ends = {} THEN Len(line) + 1
                  ELSE CHOOSE i \in ends : \A j \in ends : i <= j
         IN SubSeq(line, w + 1, e - 1)

\* filter is `<key> BETWEEN r.start AND r.end AND (old)`, key an identifier path
IsBetweenAndOld(filter, r, old) ==
    \E k \in 2..Len(filter) :
        /\ \A j \in 1..(k - 1) : filter[j] \notin {"(", ")", "AND", "OR", "BETWEEN", "WHERE"}
        /\ SubSeq(filter, k, Len(filter)) =
              <<"BETWEEN", ToString(r.start), "AND", ToString(r.end), "AND", "(">>
                  \o expr_to_string(old) \o <<")">>

\* C4: when the statement already has a filter F, the filter of every
\* rendered batch is exactly `<key> BETWEEN s AND e AND (F)`: the BETWEEN is
\* the left operand, the original condition the right one, in parentheses and
\* otherwise unchanged, never `(F) AND <key> BETWEEN ...` (both
\* merge_selection implementations and the text based SqlSlicerTemplate).
C4_BetweenFirstOldConditionNested ==
    (/\ SingleStatement(cmd)
     /\ SupportedKind(StatementOf(cmd))
     /\ IsIdentifierPath(cmd.primary_key)
     /\ StatementOf(cmd).selection # <<>>) =>
        \A i \in 1..Len(file.lines) :
            IsBetweenAndOld(FilterOf(file.lines[i]), out[i], StatementOf(cmd).selection[1])

\* C8: in execute every error other than an I/O error is raised before the
\* output file is created: start > end, batch size 0, blank SQL, a syntax
\* error, a statement count other than one, an invalid primary key and an
\* unsupported statement kind all fail with no output file created or
\* written; once the file exists render_for_range cannot fail.
C8_ExecuteFailsBeforeFileCreation ==
    prog = "execute" =>
        /\ (pc = "failed" /\ result.err # "Io") => ~file.created
        /\ (~ValidCommand(cmd) /\ pc \in {"done", "failed", "panicked"}) =>
              pc = "failed" /\ ~file.created /\ file.lines = <<>>
        /\ file.created =>
              \A s \in PipeIds, e \in PipeIds : render_for_range(tmpl.value, s, e).err = "Ok"

MultipleStatements(c) ==
    /\ trim(c.raw_sql.text) # <<>>
    /\ c.raw_sql.parsed.ok
    /\ Len(c.raw_sql.parsed.statements) >= 2

\* C9: input that parses to two or more statements is rejected
\* (MultipleStatements in SqlBatchJob::from_request, the exactly-one-statement
\* error in SqlParserBatchTemplate::parse): no job or template is built,
\* nothing is rendered, and in execute the output file is never created.
C9_MultipleStatementsRejected ==
    (prog \in {"execute", "job"} /\ MultipleStatements(cmd)) =>
        /\ pc \in {"start", "failed"}
        /\ ~tmpl.compiled
        /\ ~file.created
        /\ file.lines = <<>>
        /\ (pc = "failed" /\ prog = "job" /\ ValidRange(cmd)
                /\ IsIdentifierPath(cmd.primary_key)) =>
              result = Err("MultipleStatements")
        /\ (pc = "failed" /\ prog = "execute" /\ ValidRange(cmd)) =>
              result = Err("NotExactlyOneStatement")

\* execute has returned the statement count error and created no file
C9_Witness ==
    /\ prog = "execute"
    /\ MultipleStatements(cmd)
    /\ pc = "failed"
    /\ result = Err("NotExactlyOneStatement")
    /\ ~file.created

\* C10: the primary key resolver accepts a key string only if it is a bare
\* identifier or a dotted identifier path: blank input fails with
\* EmptyPrimaryKey; function calls, literals, operator expressions and
\* unparseable text fail with InvalidPrimaryKeyExpression; no such text
\* reaches a rendered BETWEEN predicate (PrimaryKey::new and
\* build_primary_key_expr).
C10_OnlyIdentifierPathKeys ==
    (prog \in {"execute", "job"} /\ ~IsIdentifierPath(cmd.primary_key)) =>
        /\ pc \in {"start", "failed"}
        /\ ~tmpl.compiled
        /\ file.lines = <<>>
        /\ (/\ pc = "failed"
            /\ ValidRange(cmd)
            /\ SingleStatement(cmd)
            /\ SupportedKind(StatementOf(cmd))) =>
              result = Err(IF trim(cmd.primary_key.text) = <<>>
                           THEN "EmptyPrimaryKey"
                           ELSE "InvalidPrimaryKeyExpression")

(***************************************************************************)
(* How the key of the batch predicate is qualified.                         *)
(***************************************************************************)
KeyExpr(key) == key.probe.statements[1].projection[1].expr

UnqualifiedKey(key) == IsIdentifierPath(key) /\ KeyExpr(key).t = "Identifier"

QualifiedKey(key) == IsIdentifierPath(key) /\ KeyExpr(key).t = "CompoundIdentifier"

\* the filter of the line opens with the predicate `key BETWEEN r.start AND r.end`
OpensWith(line, key, r) ==
    LET predicate == key \o <<"BETWEEN", ToString(r.start), "AND", ToString(r.end)>> IN
    /\ Len(FilterOf(line)) >= Len(predicate)
    /\ SubSeq(FilterOf(line), 1, Len(predicate)) = predicate

\* the table an UPDATE names first (its primary target), or the first of a FROM list
PrimaryTable(c) == StatementOf(c).from[1].relation

AliasedUpdate(c) ==
    /\ SingleStatement(c)
    /\ StatementOf(c).kind = "Update"
    /\ PrimaryTable(c).factor = "Table"
    /\ PrimaryTable(c).alias # <<>>

\* C11: an unqualified primary key against an UPDATE whose primary target
\* table has an alias is rendered qualified with that alias, not with the
\* alias of a joined table: `id` against `UPDATE users u JOIN departments d`
\* gives `u.id BETWEEN s AND e` in every batch (PrimaryKey::to_expr and
\* extract_main_table_alias).
C11_UpdateKeyTakesPrimaryAlias ==
    (/\ prog \in {"execute", "job"}
     /\ AliasedUpdate(cmd)
     /\ UnqualifiedKey(cmd.primary_key)) =>
        \A i \in 1..Len(file.lines) :
            OpensWith(file.lines[i],
                      PrimaryTable(cmd).alias \o <<".">> \o trim(cmd.primary_key.text),
                      out[i])

\* execute has written two batches of an UPDATE with a join for the key `id`
C11_Witness ==
    /\ prog = "execute"
    /\ AliasedUpdate(cmd)
    /\ PrimaryTable(cmd).alias = <<"u">>
    /\ StatementOf(cmd).from[1].joins # <<>>
    /\ UnqualifiedKey(cmd.primary_key)
    /\ Len(file.lines) = 2
    /\ OpensWith(file.lines[2], <<"u", ".", "id">>, out[2])

\* C12: a primary key given in qualified form (`t2.id`) is used in every
\* batch predicate with exactly the identifier path the user gave, whatever
\* table or alias the statement's target resolves to; the resolved target is
\* never put in front of it (`t1.t2.id` never appears).
C12_QualifiedKeyKeptVerbatim ==
    (/\ prog \in {"execute", "job"}
     /\ SingleStatement(cmd)
     /\ SupportedKind(StatementOf(cmd))
     /\ QualifiedKey(cmd.primary_key)) =>
        \A i \in 1..Len(file.lines) :
            /\ OpensWith(file.lines[i], trim(cmd.primary_key.text), out[i])
            /\ trim(cmd.primary_key.text) = expr_to_string(KeyExpr(cmd.primary_key))

\* SqlBatchJob has written two batches with the key `t2.id` for a statement
\* whose target resolves to the alias `u`
C12_Witness ==
    /\ prog = "job"
    /\ SingleStatement(cmd)
    /\ QualifiedKey(cmd.primary_key)
    /\ resolve_target_table(StatementOf(cmd)) = Ok(<<"u">>)
    /\ Len(file.lines) = 2
    /\ OpensWith(file.lines[2], <<"t2", ".", "id">>, out[2])

UnaliasedUpdate(c) ==
    /\ SingleStatement(c)
    /\ StatementOf(c).kind = "Update"
    /\ PrimaryTable(c).factor = "Table"
    /\ PrimaryTable(c).alias = <<>>

\* the last part of the table's name
BareName(table) == <<table.name[Len(table.name)]>>

\* C13: for an UPDATE whose primary target table has no alias the target
\* resolver yields the table's bare name, so an unqualified primary key is
\* rendered as `<table>.<column> BETWEEN s AND e`
\* (DmlStatement::resolve_target_table and extract_main_table_alias).
C13_UpdateKeyTakesBareTableName ==
    (/\ prog \in {"execute", "job"}
     /\ UnaliasedUpdate(cmd)
     /\ UnqualifiedKey(cmd.primary_key)) =>
        \A i \in 1..Len(file.lines) :
            OpensWith(file.lines[i],
                      BareName(PrimaryTable(cmd)) \o <<".">> \o trim(cmd.primary_key.text),
                      out[i])

\* `DELETE FROM users`, key `id`, and a range no wider than the batch size
DeleteUsersInOneBatch ==
    /\ prog = "execute"
    /\ cmd.raw_sql = Single(DeleteUsers)
    /\ trim(cmd.primary_key.text) = <<"id">>
    /\ ValidRange(cmd)
    /\ cmd.end_id - cmd.start_id + 1 <= cmd.batch_size

\* C14: for a DELETE with no filter on a single unaliased table, the
\* unqualified key `id` and a range that fits in one batch,
\* GenerateBatchedSqlUseCase::execute writes exactly one line, whose filter
\* is solely the BETWEEN predicate on the bare key:
\* `DELETE FROM users WHERE id BETWEEN <start> AND <end>;`.
C14_DeleteUsersSingleLine ==
    DeleteUsersInOneBatch =>
        /\ pc # "panicked"
        /\ pc = "failed" => result.err = "Io"
        /\ Len(file.lines) <= 1
        /\ \A i \in 1..Len(file.lines) :
              file.lines[i] = <<"DELETE", "FROM", "users", "WHERE", "id", "BETWEEN",
                                ToString(cmd.start_id), "AND", ToString(cmd.end_id), ";">>
        /\ pc = "done" => Len(file.lines) = 1 /\ result = Ok(1)

\* a DELETE with an explicit target list; its first named target
MultiTableDelete(c) ==
    /\ SingleStatement(c)
    /\ StatementOf(c).kind = "Delete"
    /\ StatementOf(c).tables # <<>>

FirstTarget(c) == <<StatementOf(c).tables[1][Len(StatementOf(c).tables[1])]>>

\* C15: for a multi-table DELETE with an explicit target list an unqualified
\* primary key is bound to the first named target of that list, also when
\* that target is not the first table of the FROM/join list (`DELETE d FROM
\* users u JOIN departments d ...` binds `id` to d), in both target resolvers
\* (DmlStatement::resolve_target_table and extract_main_table_alias).
C15_DeleteKeyTakesFirstTarget ==
    (/\ prog \in {"execute", "job"}
     /\ MultiTableDelete(cmd)
     /\ UnqualifiedKey(cmd.primary_key)) =>
        \A i \in 1..Len(file.lines) :
            OpensWith(file.lines[i],
                      FirstTarget(cmd) \o <<".">> \o trim(cmd.primary_key.text),
                      out[i])

(***************************************************************************)
(* Rendering and the stored job.                                            *)
(***************************************************************************)
\* what the program compiled from its input, and the line it renders for r
CompiledFrom(c) ==
    IF prog = "execute" THEN execute_compile(c) ELSE SqlBatchJob_from_request(c)

RenderedLine(r) ==
    IF prog = "execute" THEN execute_line(tmpl.value, r) ELSE render_to_line(tmpl.value, r)

Count(line, token) == Cardinality({i \in 1..Len(line) : line[i] = token})

\* C16: rendering is stateless and idempotent: after any sequence of render
\* calls on one compiled job (SqlParserBatchTemplate::render_for_range,
\* SqlBatchJob::render_to) the stored base statement and key are as compiled,
\* rendering a sub-range again gives the text rendered before, and every
\* rendered statement holds exactly one injected BETWEEN predicate
\* (predicates of earlier sub-ranges never accumulate).
C16_RenderingIsStateless ==
    (prog \in {"execute", "job"} /\ tmpl.compiled) =>
        /\ tmpl = Compiled(CompiledFrom(cmd).value)
        /\ Len(file.lines) = Len(out)
        /\ \A i \in 1..Len(file.lines) :
              /\ RenderedLine(out[i]) = Ok(file.lines[i])
              /\ Count(file.lines[i], "BETWEEN") = 1

\* SqlBatchJob::render_to has rendered two sub-ranges of a statement with a filter
C16_Witness ==
    /\ prog = "job"
    /\ tmpl.compiled
    /\ pc = "done"
    /\ Len(file.lines) = 2
    /\ out[1] # out[2]
    /\ StatementOf(cmd).selection # <<>>
    /\ RenderedLine(out[1]) = Ok(file.lines[1])

(***************************************************************************)
(* Constructing a slicer (SpecSlice).                                       *)
(***************************************************************************)
Constructed == prog \in Slicers /\ pc # "new"

InvalidRangeErrors == {"InvalidRange", "InvalidPrimaryKeyRange"}

\* C17 as stated: constructing the slicer fails with the invalid-range error
\* whenever start > end and with the invalid-batch-size error whenever the
\* batch size is 0, and succeeds for every other input; no sub-range is ever
\* produced from a rejected input (IdBatchSlicer::new, IdRange::new,
\* BatchSize::new, IdSlicer::build).
C17_AsStated ==
    Constructed =>
        /\ cmd.start_id > cmd.end_id =>
              pc = "rejected" /\ result.err \in InvalidRangeErrors
        /\ cmd.batch_size = 0 =>
              pc = "rejected" /\ result.err = "InvalidBatchSize"
        /\ (cmd.start_id <= cmd.end_id /\ cmd.batch_size > 0) =>
              pc # "rejected" /\ result = Ok(<<>>)
        /\ pc = "rejected" => out = <<>>

\* C17, amended: the range is checked first.  Construction fails with the
\* invalid-range error whenever start > end, with the invalid-batch-size
\* error whenever the batch size is 0 and start <= end, and succeeds for
\* every other input; no sub-range is ever produced from a rejected input.
\* On their own, IdRange::new fails exactly when start > end and
\* BatchSize::new exactly when the size is 0.
C17_RangeCheckedFirst ==
    Constructed =>
        /\ cmd.start_id > cmd.end_id =>
              pc = "rejected" /\ result.err \in InvalidRangeErrors
        /\ (cmd.batch_size = 0 /\ cmd.start_id <= cmd.end_id) =>
              pc = "rejected" /\ result.err = "InvalidBatchSize"
        /\ (cmd.start_id <= cmd.end_id /\ cmd.batch_size > 0) =>
              pc # "rejected" /\ result = Ok(<<>>)
        /\ pc = "rejected" => out = <<>>
        /\ (IdRange_new(cmd.start_id, cmd.end_id) = "InvalidPrimaryKeyRange")
              = (cmd.start_id > cmd.end_id)
        /\ (BatchSize_new(cmd.batch_size) = "InvalidBatchSize") = (cmd.batch_size = 0)

\* IdBatchSlicer::new has rejected an input with start > end and batch size 0
C17_Witness ==
    /\ prog = "iter_ranges"
    /\ pc = "rejected"
    /\ cmd.start_id > cmd.end_id
    /\ cmd.batch_size = 0
    /\ result.err = "InvalidRange"
    /\ out = <<>>

(***************************************************************************)
(* The lines of the output.                                                 *)
(***************************************************************************)
EndsWithSemicolon(text) == trim_end(text) # <<>> /\ trim_end(text)[Len(trim_end(text))] = ";"

\* the statement text the program rendered for r, before the line was made
RenderedText(r) ==
    IF prog = "execute" THEN render_for_range(tmpl.value, r.start, r.end).value
    ELSE statement_to_string(
             to_batched_statement(tmpl.value.statement, tmpl.value.config.primary_key, r).value)

\* C18: the output holds exactly one statement per line and one line per
\* sub-range, and every line ends with a semicolon: execute appends `;` to a
\* rendered statement if and only if its text, ignoring trailing white space,
\* does not already end with `;` (SqlBatchJob::render_to always appends it).
C18_OneTerminatedStatementPerLine ==
    prog \in {"execute", "job"} =>
        /\ Len(file.lines) = Len(out)
        /\ \A i \in 1..Len(file.lines) :
              /\ file.lines[i][Len(file.lines[i])] = ";"
              /\ Count(file.lines[i], ";") = 1
              /\ IsBatchFor(file.lines[i], out[i])
              /\ prog = "execute" =>
                    file.lines[i] =
                        IF EndsWithSemicolon(RenderedText(out[i])) THEN RenderedText(out[i])
                        ELSE RenderedText(out[i]) \o <<";">>
              /\ prog = "job" => file.lines[i] = RenderedText(out[i]) \o <<";">>
        /\ pc = "done" =>
              Len(file.lines) = CeilDiv(cmd.end_id - cmd.start_id + 1, cmd.batch_size)

\* execute has finished a file of two lines, each a statement with its semicolon
C18_Witness ==
    /\ prog = "execute"
    /\ pc = "done"
    /\ Len(file.lines) = 2
    /\ ~EndsWithSemicolon(RenderedText(out[2]))
    /\ file.lines[2] = RenderedText(out[2]) \o <<";">>

(***************************************************************************)
(* The output writer at the exits of execute.                               *)
(***************************************************************************)
ExecuteReturnedWithFile == prog = "execute" /\ file.created /\ pc \in {"done", "failed"}

\* C19: in GenerateBatchedSqlUseCase::execute, on every exit path taken after
\* the output file has been created (success, a render error, a write error)
\* the output writer is flushed before the function returns, so every line
\* written so far reaches the file (unless that flush itself fails).
C19_WriterFlushedOnEveryExit ==
    ExecuteReturnedWithFile =>
        /\ file.closed
        /\ file.flushed \/ file.flush_failed
        /\ pc = "done" => file.flushed /\ ~file.flush_failed

\* the second write failed, and the first line reached the file when the
\* writer was dropped
C19_Witness ==
    /\ ExecuteReturnedWithFile
    /\ pc = "failed"
    /\ result = Err("Io")
    /\ Len(file.lines) = 1
    /\ file.closed
    /\ file.flushed
    /\ ~file.flush_failed

\* a SELECT whose FROM list starts with a plain table
SelectFromTable(c) ==
    /\ SingleStatement(c)
    /\ StatementOf(c).kind = "Query"
    /\ StatementOf(c).body = "Select"
    /\ StatementOf(c).from # <<>>
    /\ PrimaryTable(c).factor = "Table"

\* the name a table is referred to by: its alias, or else its bare name
ReferredName(table) == IF table.alias # <<>> THEN table.alias ELSE BareName(table)

\* C20: for a SELECT with a direct FROM list an unqualified primary key is
\* bound to the first table of the FROM list (not to a joined table), and the
\* BETWEEN predicate is merged into the SELECT's WHERE as
\* `<first>.<key> BETWEEN s AND e AND (old)`.
C20_SelectKeyTakesFirstFromTable ==
    (/\ prog = "execute"
     /\ SelectFromTable(cmd)
     /\ UnqualifiedKey(cmd.primary_key)) =>
        \A i \in 1..Len(file.lines) :
            /\ OpensWith(file.lines[i],
                         ReferredName(PrimaryTable(cmd)) \o <<".">> \o trim(cmd.primary_key.text),
                         out[i])
            /\ StatementOf(cmd).selection # <<>> =>
                  IsBetweenAndOld(FilterOf(file.lines[i]), out[i],
                                  StatementOf(cmd).selection[1])

\* a DELETE with no name in its target list and an empty FROM list, in a
\* request whose key, range and batch size are valid
DeleteWithoutTable(c) ==
    /\ SingleStatement(c)
    /\ StatementOf(c).kind = "Delete"
    /\ (StatementOf(c).tables = <<>> \/ object_table_name(StatementOf(c).tables[1]) = <<>>)
    /\ StatementOf(c).from = <<>>
    /\ BatchConfig_new(c.primary_key, c.start_id, c.end_id, c.batch_size).err = "Ok"

\* C21: SqlBatchJob::from_request fails with MissingDeleteTargetTable for a
\* DELETE that has no name in its target list and an empty FROM list, at
\* compile time: no statement is rendered for it.
C21_MissingDeleteTargetTable ==
    (prog = "job" /\ DeleteWithoutTable(cmd) /\ pc # "start") =>
        /\ pc = "failed"
        /\ result = Err("MissingDeleteTargetTable")
        /\ tmpl = NoTmpl
        /\ out = <<>>
        /\ file.lines = <<>>

\* from_request has returned for such a DELETE
C21_Witness ==
    /\ prog = "job"
    /\ DeleteWithoutTable(cmd)
    /\ pc = "failed"
    /\ result = Err("MissingDeleteTargetTable")

\* the statement's first table factor is not a plain table and no target list
\* names one: no target table can be resolved
NoTargetTable(c) ==
    /\ SingleStatement(c)
    /\ IF prog = "job" THEN StatementOf(c).kind \in {"Update", "Delete"}
       ELSE SupportedKind(StatementOf(c))
    /\ StatementOf(c).tables = <<>>
    /\ StatementOf(c).from # <<>>
    /\ PrimaryTable(c).factor # "Table"

\* C23: when the primary key is unqualified and no target table can be
\* resolved (the first table factor is a derived table), compilation succeeds
\* and every batch predicate uses the bare, unqualified column.
C23_BareKeyWithoutTarget ==
    (/\ prog \in {"execute", "job"}
     /\ pc # "start"
     /\ ValidRange(cmd)
     /\ NoTargetTable(cmd)
     /\ UnqualifiedKey(cmd.primary_key)) =>
        /\ tmpl.compiled
        /\ \A i \in 1..Len(file.lines) :
              /\ OpensWith(file.lines[i], trim(cmd.primary_key.text), out[i])
              /\ Len(trim(cmd.primary_key.text)) = 1

\* SqlBatchJob has written two batches of an UPDATE of a derived table with
\* the bare key `id`
C23_Witness ==
    /\ prog = "job"
    /\ NoTargetTable(cmd)
    /\ StatementOf(cmd).kind = "Update"
    /\ UnqualifiedKey(cmd.primary_key)
    /\ pc = "done"
    /\ Len(file.lines) = 2
    /\ OpensWith(file.lines[2], <<"id">>, out[2])

\* C24: for every SqlBatchJob that SqlBatchJob::from_request returned,
\* DmlStatement::to_batched_statement succeeds for every sub-range (the
\* UnsupportedStatement branch of inject_batch_condition is not reached), and
\* the only error SqlBatchJob::render_to returns is an I/O error of the writer.
C24_RenderFailsOnlyWithIo ==
    (prog = "job" /\ tmpl.compiled) =>
        /\ tmpl.value.statement.statement.kind \in {"Update", "Delete"}
        /\ \A s \in PipeIds, e \in PipeIds :
              to_batched_statement(tmpl.value.statement, tmpl.value.config.primary_key,
                                   SubRange(s, e)).err = "Ok"
        /\ pc = "failed" => result = Err("Io")

\* render_to has returned the writer's error after writing one statement
C24_Witness ==
    /\ prog = "job"
    /\ tmpl.compiled
    /\ pc = "failed"
    /\ result = Err("Io")
    /\ Len(file.lines) = 1

\* the first position of one of the keywords outside parentheses, or the end
ClauseStart(line, keywords) ==
    LET at == {i \in 1..Len(line) : line[i] \in keywords /\ Depth(line, i) = 0} IN
    IF at = {} THEN Len(line) + 1 ELSE CHOOSE i \in at : \A j \in at : i <= j

\* what precedes the filter: the kind, the tables with aliases and joins, and
\* the SET assignments or the projection
HeadOf(line) == SubSeq(line, 1, ClauseStart(line, {"WHERE", "ORDER", "LIMIT", ";"}) - 1)

OrderOf(line) ==
    SubSeq(line, ClauseStart(line, {"ORDER"}),
           ClauseStart(line, {"LIMIT", ";"}) - 1)

LimitOf(line) == SubSeq(line, ClauseStart(line, {"LIMIT"}), ClauseStart(line, {";"}) - 1)

\* C25: the condition injectors change only the filter, the row limit and,
\* for a DELETE, the ordering: in every rendered batch the statement kind,
\* the target table and alias, the join list and the SET assignments or
\* projection are those of the input, the original filter is kept as the
\* parenthesised right operand, the ORDER BY of a statement other than a
\* DELETE is kept, and a LIMIT or ORDER BY is either the input's or absent.
C25_InjectorChangesOnlyFilterLimitOrder ==
    (/\ prog \in {"execute", "job"}
     /\ SingleStatement(cmd)
     /\ SupportedKind(StatementOf(cmd))
     /\ IsIdentifierPath(cmd.primary_key)) =>
        \A i \in 1..Len(file.lines) :
            /\ HeadOf(file.lines[i]) = HeadOf(cmd.raw_sql.text)
            /\ StatementOf(cmd).selection # <<>> =>
                  IsBetweenAndOld(FilterOf(file.lines[i]), out[i],
                                  StatementOf(cmd).selection[1])
            /\ StatementOf(cmd).selection = <<>> =>
                  ~Has(FilterOf(file.lines[i]), "(")
            /\ \/ OrderOf(file.lines[i]) = OrderOf(cmd.raw_sql.text)
               \/ StatementOf(cmd).kind = "Delete" /\ OrderOf(file.lines[i]) = <<>>
            /\ LimitOf(file.lines[i]) \in {LimitOf(cmd.raw_sql.text), <<>>}

\* SqlBatchJob has written two batches of a DELETE with a join, a filter, an
\* ORDER BY and a LIMIT
C25_Witness ==
    /\ prog = "job"
    /\ SingleStatement(cmd)
    /\ StatementOf(cmd).kind = "Delete"
    /\ StatementOf(cmd).from # <<>>
    /\ StatementOf(cmd).from[1].joins # <<>>
    /\ StatementOf(cmd).selection # <<>>
    /\ StatementOf(cmd).order_by # <<>>
    /\ StatementOf(cmd).limit # <<>>
    /\ IsIdentifierPath(cmd.primary_key)
    /\ Len(file.lines) = 2
    /\ HeadOf(file.lines[2]) = HeadOf(cmd.raw_sql.text)

\* C26: for every valid range of the signed 128-bit domain, also one ending
\* at or near the largest value, computing a sub-range's end as
\* cursor + n - 1 never overflows, and every emitted sub-range satisfies
\* start <= sub.start <= sub.end <= end (iter_ranges, split_by, slice_id).
C26_SubRangeEndNeverOverflows ==
    Sliced =>
        /\ pc # "panicked"
        /\ \A i \in 1..Len(out) :
              /\ cmd.start_id <= out[i].start
              /\ out[i].start <= out[i].end
              /\ out[i].end <= cmd.end_id

\* a non-blank text that parses to no statement
NoStatement(c) ==
    /\ trim(c.raw_sql.text) # <<>>
    /\ c.raw_sql.parsed.ok
    /\ Len(c.raw_sql.parsed.statements) = 0

\* C27: a compiled job holds exactly one statement: a non-blank input that
\* parses to zero statements (only `;`) is rejected at compile time, by
\* DmlStatement::parse with MultipleStatements and by parse_single_statement
\* with its exactly-one-statement error, and never reaches rendering.
C27_ZeroStatementsRejected ==
    (prog \in {"execute", "job"} /\ pc # "start") =>
        /\ tmpl.compiled => Len(cmd.raw_sql.parsed.statements) = 1
        /\ NoStatement(cmd) =>
              /\ pc = "failed"
              /\ ~tmpl.compiled
              /\ ~file.created
              /\ file.lines = <<>>
              /\ (ValidRange(cmd) /\ IsIdentifierPath(cmd.primary_key)) =>
                    result = IF prog = "job" THEN Err("MultipleStatements")
                             ELSE Err("NotExactlyOneStatement")

\* SqlBatchJob::from_request has rejected the text `;`
C27_Witness ==
    /\ prog = "job"
    /\ cmd.raw_sql.text = <<";">>
    /\ NoStatement(cmd)
    /\ pc = "failed"
    /\ result = Err("MultipleStatements")

(***************************************************************************)
(* Argument mode of the command line (SpecArgs).                            *)
(***************************************************************************)
ArgsReturned == prog = "args" /\ pc \in {"done", "failed"}

BothIdsGiven(args) == args.start_id # <<>> /\ args.end_id # <<>>

\* exactly one of --sql and --sql-file is given, and its content is not blank
OneSqlSourceWithContent(args) ==
    \/ /\ args.sql # <<>> /\ args.sql_file = <<>>
       /\ trim(args.sql[1]) # <<>>
    \/ /\ args.sql = <<>> /\ args.sql_file # <<>>
       /\ args.sql_file[1].read.err = "Ok"
       /\ trim(args.sql_file[1].read.value) # <<>>

\* the SQL text the arguments name
SqlOfArgs(args) == IF args.sql # <<>> THEN args.sql[1] ELSE args.sql_file[1].read.value

\* C22 as stated: in argument mode collect_command_from_args returns a command
\* if and only if both --start-id and --end-id are given and exactly one of
\* --sql / --sql-file is given with non-blank content.
C22_AsStated ==
    ArgsReturned =>
        ((result.err = "Ok") <=> (BothIdsGiven(cmd) /\ OneSqlSourceWithContent(cmd)))

\* C22: collect_command_from_args returns a command if and only if both ids
\* are given, exactly one SQL source is given with non-blank content, and the
\* primary key is not blank; the command carries the arguments unchanged; a
\* missing id, both SQL sources, or no SQL source each yield an error and no
\* command.
C22_CommandIffArgumentsComplete ==
    ArgsReturned =>
        /\ (result.err = "Ok") <=>
              /\ BothIdsGiven(cmd)
              /\ OneSqlSourceWithContent(cmd)
              /\ trim(cmd.primary_key) # <<>>
        /\ result.err = "Ok" =>
              /\ pc = "done"
              /\ result.value.start_id = cmd.start_id[1]
              /\ result.value.end_id = cmd.end_id[1]
              /\ result.value.raw_sql = SqlOfArgs(cmd)
              /\ result.value.primary_key = cmd.primary_key
        /\ (\/ ~BothIdsGiven(cmd)
            \/ (cmd.sql # <<>> /\ cmd.sql_file # <<>>)
            \/ (cmd.sql = <<>> /\ cmd.sql_file = <<>>)) =>
              (pc = "failed" /\ result.err # "Ok" /\ result.value = <<>>)

\* a command has been returned for arguments naming a readable SQL file
C22_Witness ==
    /\ ArgsReturned
    /\ result.err = "Ok"
    /\ cmd.sql_file # <<>>
    /\ result.value.raw_sql = <<"DELETE", "FROM", "users">>

(***************************************************************************)
(* Dialect names (SpecDialect).                                             *)
(***************************************************************************)
\* the names and aliases from_str lists
ListedDialectNames ==
    {<<"g", "e", "n", "e", "r", "i", "c">>,
     <<"m", "y", "s", "q", "l">>,
     <<"p", "o", "s", "t", "g", "r", "e", "s">>,
     <<"p", "o", "s", "t", "g", "r", "e", "s", "q", "l">>,
     <<"s", "q", "l", "i", "t", "e">>,
     <<"m", "s", "s", "q", "l">>,
     <<"s", "q", "l", "s", "e", "r", "v", "e", "r">>,
     <<"s", "q", "l", "_", "s", "e", "r", "v", "e", "r">>,
     <<"s", "n", "o", "w", "f", "l", "a", "k", "e">>,
     <<"d", "u", "c", "k", "d", "b">>,
     <<"d", "u", "c", "k", "_", "d", "b">>}

\* C28: dialect names round-trip: for every dialect d of SqlDialectKind::ALL
\* from_str(as_str(d)) = d, the seven names of as_str are pairwise distinct,
\* and from_str fails for every string that, trimmed and lower-cased, is not
\* one of the listed names or aliases (and succeeds for every other one).
C28_DialectNamesRoundTrip ==
    prog = "dialect" =>
        /\ pc = "round_trip" => result = Ok(cmd.dialect)
        /\ pc = "named" =>
              \A i \in 1..Len(SqlDialectKind_ALL) :
                  SqlDialectKind_ALL[i] # cmd.dialect => as_str(SqlDialectKind_ALL[i]) # out
        /\ pc = "parsed" =>
              ((result.err # "Ok") <=>
                  (to_ascii_lowercase(trim(cmd.value)) \notin ListedDialectNames))

\* the name as_str gives for DuckDb has been parsed back to DuckDb
C28_Witness ==
    /\ prog = "dialect"
    /\ pc = "round_trip"
    /\ cmd.dialect = "DuckDb"
    /\ out = <<"d", "u", "c", "k", "d", "b">>
    /\ result = Ok("DuckDb")

Init == InitExecute \/ InitJob \/ InitRun

Next == NextExecute \/ NextJob \/ NextRun

Spec == Init /\ [][Next]_vars
====
